---- MODULE Spec2Model ----
(***************************************************************************)
(* coult: a client that builds a Vault handle from a builder (explicit     *)
(* values, environment variables, defaults), health-checks the server and  *)
(* retrieves one secret as a KV-v1 or KV-v2 envelope.                      *)
(***************************************************************************)
EXTENDS Integers, Sequences, FiniteSets, Bags, TLC

(* ------------------------------------------------------------------ *)
(* Option and Result values                                             *)
(* ------------------------------------------------------------------ *)
None == [none |-> TRUE]
Some(v) == [some |-> v]
IsSome(o) == "some" \in DOMAIN o

Ok(v) == [ok |-> v]
Err(e) == [err |-> e]
Panic(m) == [panic |-> m]
IsOk(r) == "ok" \in DOMAIN r
IsErr(r) == "err" \in DOMAIN r
IsPanic(r) == "panic" \in DOMAIN r

(* ------------------------------------------------------------------ *)
(* error.rs: VaultError, and the other boxed errors `?` propagates      *)
(* ------------------------------------------------------------------ *)
VaultErrorKinds ==
  {"VaultSealed", "VaultNotInitialized", "VaultStandby", "VaultActiveDRsecondaryNode",
   "VaultStandbyPerformanceNode", "VaultInvalidPath", "Unknown"}

VaultError(kind, status_code) == [kind |-> kind, code |-> status_code]

\* Errors that carry no status code: hyper's InvalidUri, the transport's
\* error, serde_json's error.
NoCode == 0
InvalidUri == [kind |-> "InvalidUri", code |-> NoCode]
TransportError == [kind |-> "Transport", code |-> NoCode]
SerdeError == [kind |-> "Serde", code |-> NoCode]

(* ------------------------------------------------------------------ *)
(* client.rs: check_vault_error                                         *)
(* The result, and the error!-level events emitted while computing it.  *)
(* ------------------------------------------------------------------ *)
Failed(e) == [res |-> Err(e), errlog |-> <<e>>]

\* 429 given its own kind
check_vault_error_standby(status_code) ==
  CASE status_code = 200 -> [res |-> Ok("unit"), errlog |-> <<>>]
    [] status_code = 503 -> Failed(VaultError("VaultSealed", status_code))
    [] status_code = 429 -> Failed(VaultError("VaultStandby", status_code))
    [] status_code = 472 -> Failed(VaultError("VaultActiveDRsecondaryNode", status_code))
    [] status_code = 473 -> Failed(VaultError("VaultStandbyPerformanceNode", status_code))
    [] status_code = 404 -> Failed(VaultError("VaultInvalidPath", status_code))
    [] status_code = 501 -> Failed(VaultError("VaultNotInitialized", status_code))
    [] OTHER -> Failed(VaultError("Unknown", status_code))

\* every 5xx taken for a node that answers
check_vault_error_lenient(status_code) ==
  CASE status_code = 200 -> [res |-> Ok("unit"), errlog |-> <<>>]
    [] status_code = 503 -> [res |-> Ok("unit"), errlog |-> <<>>]
    [] status_code = 429 -> Failed(VaultError("VaultSealed", status_code))
    [] status_code = 472 -> Failed(VaultError("VaultActiveDRsecondaryNode", status_code))
    [] status_code = 473 -> Failed(VaultError("VaultStandbyPerformanceNode", status_code))
    [] status_code = 404 -> Failed(VaultError("VaultInvalidPath", status_code))
    [] status_code = 501 -> Failed(VaultError("VaultNotInitialized", status_code))
    [] OTHER -> Failed(VaultError("Unknown", status_code))

check_vault_error(status_code) ==
  CASE status_code = 200 -> [res |-> Ok("unit"), errlog |-> <<>>]
    [] status_code = 503 -> Failed(VaultError("VaultSealed", status_code))
    [] status_code = 429 -> Failed(VaultError("VaultSealed", status_code))
    [] status_code = 472 -> Failed(VaultError("VaultActiveDRsecondaryNode", status_code))
    [] status_code = 473 -> Failed(VaultError("VaultStandbyPerformanceNode", status_code))
    [] status_code = 404 -> Failed(VaultError("VaultInvalidPath", status_code))
    [] status_code = 501 -> Failed(VaultError("VaultNotInitialized", status_code))
    [] OTHER -> Failed(VaultError("Unknown", status_code))

(* ------------------------------------------------------------------ *)
(* Text.  Strings are atoms, except the port text, which str::parse     *)
(* reads character by character.                                        *)
(* ------------------------------------------------------------------ *)
Digit ==
  [c \in {"0", "1", "2", "3", "4", "5", "6", "7", "8", "9"} |->
     CASE c = "0" -> 0 [] c = "1" -> 1 [] c = "2" -> 2 [] c = "3" -> 3 [] c = "4" -> 4
       [] c = "5" -> 5 [] c = "6" -> 6 [] c = "7" -> 7 [] c = "8" -> 8 [] c = "9" -> 9]

U16Max == 65535

RECURSIVE DigitsValue(_)
DigitsValue(s) ==
  IF Len(s) = 0 THEN 0
  ELSE 10 * DigitsValue(SubSeq(s, 1, Len(s) - 1)) + Digit[s[Len(s)]]

ParseIntError == [kind |-> "ParseInt", code |-> NoCode]

\* str::parse::<u16>: an optional '+', then one or more decimal digits,
\* every intermediate value checked against u16::MAX.
ParseU16(s) ==
  LET digits == IF Len(s) > 0 /\ s[1] = "+" THEN Tail(s) ELSE s
  IN  IF Len(digits) = 0 \/ \E i \in 1..Len(digits) : digits[i] \notin DOMAIN Digit
      THEN Err(ParseIntError)
      ELSE IF DigitsValue(digits) > U16Max THEN Err(ParseIntError)
      ELSE Ok(DigitsValue(digits))

\* Text that Uri's parser rejects (it holds a space).
MalformedUriText == {"vault host", "secret path"}

(* ------------------------------------------------------------------ *)
(* client.rs: VaultBuilder                                              *)
(* ------------------------------------------------------------------ *)
Fields == {"secret_path", "address", "port", "token", "protocol"}

\* Vault::new()
EmptyBuilder ==
  [secret_path |-> None, address |-> None, port |-> None, token |-> None, protocol |-> None]

DefaultAddress == "127.0.0.1"
DefaultPortText == <<"8", "2", "0", "0">>
DefaultProtocol == "http"

\* env::var(name): Err when the variable is unset.  (A value that is not
\* unicode is an Err as well, and every use below treats the two alike.)
NoEnv ==
  [VAULT_SECRET_PATH |-> None, VAULT_ADDRESS |-> None, VAULT_PORT |-> None,
   VAULT_TOKEN |-> None, VAULT_PROTOCOL |-> None]

EnvNames == DOMAIN NoEnv

\* Option::get_or_insert_with(f): the held value, else f()
get_or_insert_with(opt, v) == IF IsSome(opt) THEN opt ELSE Some(v)

\* unwrap_or_else(|_| default)
unwrap_or(opt, default) == IF IsSome(opt) THEN opt.some ELSE default

\* the environment variable, when set, replaces the value the builder holds
ResolveFrom_env_first(b, e) ==
  LET portRes == ParseU16(unwrap_or(e.VAULT_PORT, DefaultPortText))
      b1 == [b EXCEPT !.secret_path = IF IsSome(e.VAULT_SECRET_PATH) THEN e.VAULT_SECRET_PATH ELSE @]
      b2 == [b1 EXCEPT !.address = IF IsSome(e.VAULT_ADDRESS) \/ ~IsSome(@)
                                    THEN Some(unwrap_or(e.VAULT_ADDRESS, DefaultAddress)) ELSE @]
      b3 == [b2 EXCEPT !.port = IF IsSome(e.VAULT_PORT) \/ ~IsSome(@) THEN Some(portRes.ok) ELSE @]
      b4 == [b3 EXCEPT !.token = IF IsSome(e.VAULT_TOKEN) THEN e.VAULT_TOKEN ELSE @]
      b5 == [b4 EXCEPT !.protocol = IF IsSome(e.VAULT_PROTOCOL) \/ ~IsSome(@)
                                     THEN Some(unwrap_or(e.VAULT_PROTOCOL, DefaultProtocol)) ELSE @]
  IN  IF ~IsSome(b1.secret_path)
      THEN [builder |-> b, panic |-> Some("Set secret_path or VAULT_SECRET_PATH")]
      ELSE IF (IsSome(e.VAULT_PORT) \/ ~IsSome(b.port)) /\ ~IsOk(portRes)
      THEN [builder |-> b2, panic |-> Some("called Result::unwrap on an Err value")]
      ELSE IF ~IsSome(b4.token)
      THEN [builder |-> b3, panic |-> Some("Set token or VAULT_TOKEN env")]
      ELSE [builder |-> b5, panic |-> None]

\* build(), lines 82-102: the five fields in source order.  Each closure
\* runs only when the field is None; expect()/unwrap() panic inside it, and
\* the fields before it have already been written.
ResolveFrom(b, e) ==
  LET needPath == ~IsSome(b.secret_path)
      needPort == ~IsSome(b.port)
      needTok  == ~IsSome(b.token)
      portRes  == ParseU16(unwrap_or(e.VAULT_PORT, DefaultPortText))
      b1 == [b EXCEPT !.secret_path = get_or_insert_with(@, e.VAULT_SECRET_PATH.some)]
      b2 == [b1 EXCEPT !.address = get_or_insert_with(@, unwrap_or(e.VAULT_ADDRESS, DefaultAddress))]
      b3 == [b2 EXCEPT !.port = get_or_insert_with(@, portRes.ok)]
      b4 == [b3 EXCEPT !.token = get_or_insert_with(@, e.VAULT_TOKEN.some)]
      b5 == [b4 EXCEPT !.protocol = get_or_insert_with(@, unwrap_or(e.VAULT_PROTOCOL, DefaultProtocol))]
  IN  IF needPath /\ ~IsSome(e.VAULT_SECRET_PATH)
      THEN [builder |-> b, panic |-> Some("Set secret_path or VAULT_SECRET_PATH")]
      ELSE IF needPort /\ ~IsOk(portRes)
      THEN [builder |-> b2, panic |-> Some("called Result::unwrap on an Err value")]
      ELSE IF needTok /\ ~IsSome(e.VAULT_TOKEN)
      THEN [builder |-> b3, panic |-> Some("Set token or VAULT_TOKEN env")]
      ELSE [builder |-> b5, panic |-> None]

(* ------------------------------------------------------------------ *)
(* schema.rs: the response envelopes, and serde's derived Deserialize   *)
(* A JSON value is [str |-> s], [num |-> n], [bool |-> b], [null |-> TRUE]  *)
(* or [obj |-> record]; a body is [json |-> value] or bytes that are no   *)
(* JSON document.                                                        *)
(* ------------------------------------------------------------------ *)
JStr(s) == [str |-> s]
JNum(n) == [num |-> n]
JBool(b) == [bool |-> b]
JNull == [null |-> TRUE]
JObj(r) == [obj |-> r]
NotJson == [garbage |-> TRUE]
JsonBody(j) == [json |-> j]

IsObj(j) == "obj" \in DOMAIN j
HasField(j, f) == IsObj(j) /\ f \in DOMAIN j.obj

\* String, bool, u32 (a number is an integer; none here reaches 2^32)
DeString(j) == IF "str" \in DOMAIN j THEN Ok(j.str) ELSE Err(SerdeError)
DeBool(j) == IF "bool" \in DOMAIN j THEN Ok(j.bool) ELSE Err(SerdeError)
DeU32(j) == IF "num" \in DOMAIN j /\ j.num >= 0 THEN Ok(j.num) ELSE Err(SerdeError)

\* Option<String> field of a derived struct: a missing field and null are None
DeOptString(j, f) ==
  IF ~HasField(j, f) \/ (HasField(j, f) /\ "null" \in DOMAIN j.obj[f]) THEN Ok(None)
  ELSE IF IsOk(DeString(j.obj[f])) THEN Ok(Some(j.obj[f].str))
  ELSE Err(SerdeError)

\* a required field f of a derived struct, present in the object j
Required(j, f) == HasField(j, f)

\* T: the caller's payload type, `struct Secret { password: String }`;
\* fields the struct does not name are ignored.
DeSecret(j) ==
  IF Required(j, "password") /\ IsOk(DeString(j.obj.password))
  THEN Ok([password |-> j.obj.password.str])
  ELSE Err(SerdeError)

\* Data<T>
DeData(j) ==
  IF Required(j, "data") /\ IsOk(DeSecret(j.obj.data))
  THEN Ok([data |-> DeSecret(j.obj.data).ok])
  ELSE Err(SerdeError)

\* The seven fields the two envelopes share
EnvelopeFields(j) ==
  /\ Required(j, "request_id") /\ IsOk(DeString(j.obj.request_id))
  /\ Required(j, "lease_id") /\ IsOk(DeString(j.obj.lease_id))
  /\ Required(j, "renewable") /\ IsOk(DeBool(j.obj.renewable))
  /\ Required(j, "lease_duration") /\ IsOk(DeU32(j.obj.lease_duration))
  /\ IsOk(DeOptString(j, "wrap_info"))
  /\ IsOk(DeOptString(j, "warnings"))
  /\ IsOk(DeOptString(j, "auth"))

EnvelopeStruct(j, data) ==
  [request_id |-> j.obj.request_id.str,
   lease_id |-> j.obj.lease_id.str,
   renewable |-> j.obj.renewable.bool,
   lease_duration |-> j.obj.lease_duration.num,
   data |-> data,
   wrap_info |-> DeOptString(j, "wrap_info").ok,
   warnings |-> DeOptString(j, "warnings").ok,
   auth |-> DeOptString(j, "auth").ok]

\* VaultSchemaV1<T>
DeVaultSchemaV1(j) ==
  IF EnvelopeFields(j) /\ Required(j, "data") /\ IsOk(DeSecret(j.obj.data))
  THEN Ok(EnvelopeStruct(j, DeSecret(j.obj.data).ok))
  ELSE Err(SerdeError)

\* VaultSchemaV2<T>
DeVaultSchemaV2(j) ==
  IF EnvelopeFields(j) /\ Required(j, "data") /\ IsOk(DeData(j.obj.data))
  THEN Ok(EnvelopeStruct(j, DeData(j.obj.data).ok))
  ELSE Err(SerdeError)

\* serde_json::from_reader over the collected body, into the schema of the
\* operation
from_reader(kind, body) ==
  IF "json" \notin DOMAIN body THEN Err(SerdeError)
  ELSE IF kind = "get_secret" THEN DeVaultSchemaV1(body.json)
  ELSE DeVaultSchemaV2(body.json)

(* ------------------------------------------------------------------ *)
(* client.rs: requests                                                  *)
(* ------------------------------------------------------------------ *)
\* Text a header value cannot hold (it holds a line feed).
MalformedHeaderText == {"tok\\n"}

HttpError == [kind |-> "Http", code |-> NoCode]

\* format!("{}://{}:{}/v1/sys/health", protocol, address, port)
HealthUri(v) ==
  [scheme |-> v.protocol.some, host |-> v.address.some, port |-> v.port.some,
   path |-> [prefix |-> "/v1/", rest |-> "sys/health"]]

\* format!("{}://{}:{}/v1/{}", protocol, address, port, secret_path)
SecretUri(v) ==
  [scheme |-> v.protocol.some, host |-> v.address.some, port |-> v.port.some,
   path |-> [prefix |-> "/v1/", rest |-> v.secret_path.some]]

\* .parse::<Uri>()?  then  Request::builder()...body(Empty::new())?
BuildRequest(uri, v) ==
  IF uri.scheme \in MalformedUriText \/ uri.host \in MalformedUriText
     \/ uri.path.rest \in MalformedUriText
  THEN Err(InvalidUri)
  ELSE IF v.token.some \in MalformedHeaderText THEN Err(HttpError)
  ELSE Ok([method |-> "GET", uri |-> uri,
           headers |-> [content_type |-> "application/json", x_vault_token |-> v.token.some]])

(* ------------------------------------------------------------------ *)
(* State                                                                *)
(* ------------------------------------------------------------------ *)
VARIABLES
  builder,      \* the VaultBuilder's five Option fields
  explicit,     \* per field, the value the caller last gave through a setter
  bpc,          \* build(): "idle", "health_check" (awaiting the response), "panicked"
  inflight,     \* the running build: the environment it read, its Vault, its requests
  built,        \* the outcome of the build that finished last
  vaults,       \* the Vault values the caller holds or has moved into a get_secret call
  got,          \* the outcome of the get_secret / get_secret_v2 call that finished last
  status_code,  \* the argument of a direct check_vault_error evaluation
  mapped        \* its result

vars == <<builder, explicit, bpc, inflight, built, vaults, got, status_code, mapped>>

Pending == [pending |-> TRUE]

NoBuild == [env |-> None, vault |-> None, reqs |-> <<>>]

\* What one finished operation did: the requests it sent, the status it read,
\* whether it collected the body, the events it logged, what it returned.
NoOp ==
  [op |-> "none", vault |-> None, reqs |-> <<>>, status |-> None, collected |-> "no",
   body |-> None, log |-> <<>>, result |-> Pending, repeat |-> FALSE]

Finished(op, vault, reqs, status, collected, body, log, result) ==
  [op |-> op, vault |-> vault, reqs |-> reqs, status |-> status, collected |-> collected,
   body |-> body, log |-> log, result |-> result, repeat |-> FALSE]

\* History: r.repeat tells that the call finished before r was the same call
\* (operation, configuration) and met the same response.
Mark(r) ==
  [r EXCEPT !.repeat = /\ got.op = r.op /\ got.vault = r.vault /\ got.status = r.status
                       /\ got.collected = r.collected /\ got.body = r.body]

ErrorEvents(errlog) == [i \in 1..Len(errlog) |-> [level |-> "ERROR", event |-> errlog[i]]]
InfoEvent == [level |-> "INFO", event |-> [kind |-> "info", code |-> NoCode]]

One(x) == SetToBag({x})
Live == BagToSet(vaults)

Init ==
  /\ builder = EmptyBuilder
  /\ explicit = EmptyBuilder
  /\ bpc = "idle"
  /\ inflight = NoBuild
  /\ built = NoOp
  /\ vaults = EmptyBag
  /\ got = NoOp
  /\ status_code = 200
  /\ mapped = Pending

(* ------------------------------------------------------------------ *)
(* VaultBuilder setters (lines 41-69)                                   *)
(* ------------------------------------------------------------------ *)
Set(f, v) ==
  /\ bpc = "idle"
  /\ builder' = [builder EXCEPT ![f] = Some(v)]
  /\ explicit' = [explicit EXCEPT ![f] = Some(v)]
  /\ UNCHANGED <<bpc, inflight, built, vaults, got, status_code, mapped>>

address(A) == \E a \in A : Set("address", a)
port(P) == \E p \in P : Set("port", p)
token(T) == \E t \in T : Set("token", t)
secret_path(S) == \E p \in S : Set("secret_path", p)
https == Set("protocol", "https")
protocol(P) == \E p \in P : Set("protocol", p)

(* ------------------------------------------------------------------ *)
(* VaultBuilder::build (lines 81-132) and Vault::health_check (187-205) *)
(* ------------------------------------------------------------------ *)
MaxVaults == 1

\* Up to the first await: resolve the fields reading environment e, clone
\* them into the Vault, build the health request and hand it to the client.
BuildStart(E) ==
  /\ bpc = "idle"
  /\ BagCardinality(vaults) < MaxVaults
  /\ \E e \in E :
       LET r == ResolveFrom(builder, e)
           vault == r.builder
           req == BuildRequest(HealthUri(vault), vault)
       IN  /\ builder' = r.builder
           /\ IF IsSome(r.panic)
              THEN /\ bpc' = "panicked"
                   /\ inflight' = [env |-> Some(e), vault |-> None, reqs |-> <<>>]
                   /\ built' = Finished("build", None, <<>>, None, "no", None, <<>>,
                                        Panic(r.panic.some))
              ELSE IF IsErr(req)
              THEN /\ bpc' = "idle"
                   /\ inflight' = NoBuild
                   /\ built' = Finished("build", Some(vault), <<>>, None, "no", None, <<>>, req)
              ELSE /\ bpc' = "health_check"
                   /\ inflight' = [env |-> Some(e), vault |-> Some(vault), reqs |-> <<req.ok>>]
                   /\ built' = NoOp
  /\ UNCHANGED <<explicit, vaults, got, status_code, mapped>>

\* The response arrives with status s: check_vault_error(res.status()), then
\* `?` drops the Vault, or Ok(vault) hands it to the caller.
BuildRespond(S) ==
  /\ bpc = "health_check"
  /\ \E s \in S :
       LET r == check_vault_error(s)
           v == inflight.vault.some
       IN  IF IsOk(r.res)
           THEN /\ vaults' = vaults (+) One([vault |-> v, pc |-> "ready", reqs |-> <<>>])
                /\ built' = Finished("build", Some(v), inflight.reqs, Some(s), "no", None,
                                     <<InfoEvent>>, Ok(v))
           ELSE /\ vaults' = vaults
                /\ built' = Finished("build", Some(v), inflight.reqs, Some(s), "no", None,
                                     ErrorEvents(r.errlog), r.res)
  /\ bpc' = "idle"
  /\ inflight' = NoBuild
  /\ UNCHANGED <<builder, explicit, got, status_code, mapped>>

\* the request sent again after a transport failure
BuildTransportFail_retry ==
  /\ bpc = "health_check"
  /\ inflight' = [inflight EXCEPT !.reqs = Append(@, @[1])]
  /\ UNCHANGED <<builder, explicit, bpc, built, vaults, got, status_code, mapped>>

\* self.http_client.request(req).await? fails: no response
BuildTransportFail ==
  /\ bpc = "health_check"
  /\ built' = Finished("build", inflight.vault, inflight.reqs, None, "no", None, <<>>,
                       Err(TransportError))
  /\ bpc' = "idle"
  /\ inflight' = NoBuild
  /\ UNCHANGED <<builder, explicit, vaults, got, status_code, mapped>>

(* ------------------------------------------------------------------ *)
(* Vault::get_secret (207-234) and Vault::get_secret_v2 (236-263)       *)
(* ------------------------------------------------------------------ *)
GetKinds == {"get_secret", "get_secret_v2"}

\* Up to the first await; `self` is moved into the call.
GetStart(kind) ==
  /\ \E h \in Live :
       /\ h.pc = "ready"
       /\ LET req == BuildRequest(SecretUri(h.vault), h.vault)
          IN  IF IsErr(req)
              THEN /\ vaults' = vaults (-) One(h)
                   /\ got' = Mark(Finished(kind, Some(h.vault), <<>>, None, "no", None, <<>>, req))
              ELSE /\ vaults' = (vaults (-) One(h)) (+) One([h EXCEPT !.pc = kind, !.reqs = <<req.ok>>])
                   /\ got' = got
  /\ UNCHANGED <<builder, explicit, bpc, inflight, built, status_code, mapped>>

get_secret == GetStart("get_secret")
get_secret_v2 == GetStart("get_secret_v2")

\* the outer data of either envelope
Payload_outer(kind, secret) == secret.data

\* the payload only for the first call that finishes
Payload_drained(kind, secret) ==
  IF got.op = "none" THEN (IF kind = "get_secret" THEN secret.data ELSE secret.data.data)
  ELSE [password |-> ""]

\* secret.data  /  secret.data.data
Payload(kind, secret) == IF kind = "get_secret" THEN secret.data ELSE secret.data.data

\* the body collected before the status is looked at
GetRespond_collect_first(S, B) ==
  /\ \E h \in Live, s \in S, b \in B :
       /\ h.pc \in GetKinds
       /\ LET r == check_vault_error(s)
              secret == from_reader(h.pc, b)
          IN  got' = Mark(Finished(h.pc, Some(h.vault), h.reqs, Some(s), "yes", Some(b),
                                   IF IsErr(r.res) THEN ErrorEvents(r.errlog) ELSE <<InfoEvent>>,
                                   IF IsErr(r.res) THEN r.res
                                   ELSE IF IsErr(secret) THEN secret
                                   ELSE Ok(Payload(h.pc, secret.ok))))
       /\ vaults' = vaults (-) One(h)
  /\ UNCHANGED <<builder, explicit, bpc, inflight, built, status_code, mapped>>

\* The response arrives with status s.  A status other than 200 returns
\* at `check_vault_error(res.status())?`; after a 200 the body b is collected,
\* which completes or fails on the wire, and is then deserialized.
GetRespond(S, B) ==
  /\ \E h \in Live, s \in S :
       /\ h.pc \in GetKinds
       /\ LET r == check_vault_error(s)
          IN  IF IsErr(r.res)
              THEN got' = Mark(Finished(h.pc, Some(h.vault), h.reqs, Some(s), "no", None,
                                        ErrorEvents(r.errlog), r.res))
              ELSE \/ got' = Mark(Finished(h.pc, Some(h.vault), h.reqs, Some(s), "failed", None,
                                           <<InfoEvent>>, Err(TransportError)))
                   \/ \E b \in B :
                        LET secret == from_reader(h.pc, b)
                        IN  got' = Mark(Finished(h.pc, Some(h.vault), h.reqs, Some(s), "yes",
                                                 Some(b), <<InfoEvent>>,
                                                 IF IsErr(secret) THEN secret
                                                 ELSE Ok(Payload(h.pc, secret.ok))))
       /\ vaults' = vaults (-) One(h)
  /\ UNCHANGED <<builder, explicit, bpc, inflight, built, status_code, mapped>>

\* self.http_client.request(req).await? fails: no response
GetTransportFail ==
  /\ \E h \in Live :
       /\ h.pc \in GetKinds
       /\ got' = Mark(Finished(h.pc, Some(h.vault), h.reqs, None, "no", None, <<>>,
                               Err(TransportError)))
       /\ vaults' = vaults (-) One(h)
  /\ UNCHANGED <<builder, explicit, bpc, inflight, built, status_code, mapped>>

\* The caller drops a Vault it never used.
DropVault ==
  /\ \E h \in Live : h.pc = "ready" /\ vaults' = vaults (-) One(h)
  /\ UNCHANGED <<builder, explicit, bpc, inflight, built, got, status_code, mapped>>

(* ------------------------------------------------------------------ *)
(* Inputs                                                               *)
(* ------------------------------------------------------------------ *)
\* hyper's StatusCode holds 100..=999
MinStatus == 100
MaxStatus == 999
StatusCodes == MinStatus..MaxStatus

TableCodes == {200, 404, 429, 472, 473, 501, 503}
StatusInputs == {200, 404, 503, 500}
HealthInputs == {200, 503}

PortTexts == {<<"9", "2", "0", "0">>, <<"x", "1">>, <<"6", "5", "5", "3", "6">>}

\* Every environment: each variable unset or set
AllEnvs ==
  [VAULT_SECRET_PATH : {None, Some("secret/env")},
   VAULT_ADDRESS : {None, Some("vault.env")},
   VAULT_PORT : {None} \cup {Some(t) : t \in PortTexts},
   VAULT_TOKEN : {None, Some("tok.env")},
   VAULT_PROTOCOL : {None, Some("https")}]

\* The environments of the request scenarios: nothing set, or the secret
\* path set.
RequestEnvs == {NoEnv, [NoEnv EXCEPT !.VAULT_SECRET_PATH = Some("secret/env")]}

\* Response bodies
Envelope(data) ==
  JObj([request_id |-> JStr("req-1"), lease_id |-> JStr(""), renewable |-> JBool(FALSE),
        lease_duration |-> JNum(2764800), data |-> data, wrap_info |-> JNull,
        warnings |-> JNull, auth |-> JNull])

Hunter == JObj([password |-> JStr("hunter2")])
Sword == JObj([password |-> JStr("swordfish"), user |-> JStr("root")])
KvV2(payload) == JObj([data |-> payload, metadata |-> JObj([version |-> JNum(3)])])

\* Well-formed v1 envelopes of a Secret
EnvelopesV1 ==
  {JsonBody(Envelope(Hunter)),
   JsonBody(Envelope(Sword)),
   JsonBody(JObj([request_id |-> JStr("req-2"), lease_id |-> JStr("l"), renewable |-> JBool(TRUE),
                  lease_duration |-> JNum(0), data |-> Hunter])),
   JsonBody(Envelope(JObj([password |-> JStr("outer"), data |-> Hunter])))}

\* Well-formed v2 envelopes of a Secret
EnvelopesV2 ==
  {JsonBody(Envelope(KvV2(Hunter))),
   JsonBody(Envelope(KvV2(Sword))),
   JsonBody(Envelope(JObj([password |-> JStr("outer"), data |-> Hunter])))}

\* Bodies that are no envelope of a Secret
BrokenBodies ==
  {NotJson,
   JsonBody(JStr("req-1")),
   JsonBody(JObj([lease_id |-> JStr(""), renewable |-> JBool(FALSE),
                  lease_duration |-> JNum(0), data |-> Hunter])),
   JsonBody(JObj([request_id |-> JStr("req-1"), lease_id |-> JStr(""), renewable |-> JBool(FALSE),
                  lease_duration |-> JNum(-1), data |-> Hunter])),
   JsonBody(JObj([request_id |-> JStr("req-1"), lease_id |-> JStr(""), renewable |-> JBool(FALSE),
                  lease_duration |-> JNum(0), data |-> Hunter, warnings |-> JNum(7)])),
   JsonBody(Envelope(JObj([password |-> JNum(1234)])))}

Bodies == EnvelopesV1 \cup EnvelopesV2 \cup BrokenBodies

(* ------------------------------------------------------------------ *)
(* Specifications                                                       *)
(* ------------------------------------------------------------------ *)
\* Requests and responses: a builder fed few values, every response
Next ==
  \/ address({"vault host"})
  \/ token({"s.tok", "tok\\n"})
  \/ secret_path({"secret/app", "secret path"})
  \/ BuildStart(RequestEnvs)
  \/ BuildRespond(StatusInputs)
  \/ BuildTransportFail
  \/ get_secret
  \/ get_secret_v2
  \/ GetRespond(StatusInputs, Bodies)
  \/ GetTransportFail
  \/ DropVault

Spec == Init /\ [][Next]_vars

\* Configuration: every setter, every environment, a healthy or a sealed server
NextConfig ==
  \/ address({"10.0.0.5"})
  \/ port({8300})
  \/ token({"s.tok"})
  \/ secret_path({"secret/app"})
  \/ https
  \/ protocol({"http"})
  \/ BuildStart(AllEnvs)
  \/ BuildRespond(HealthInputs)
  \/ BuildTransportFail
  \/ DropVault

SpecConfig == Init /\ [][NextConfig]_vars

\* check_vault_error alone, over every status code
InitStatus ==
  /\ Init!1 /\ Init!2 /\ Init!3 /\ Init!4 /\ Init!5 /\ Init!6 /\ Init!7
  /\ status_code \in StatusCodes
  /\ mapped = Pending

Check ==
  /\ mapped = Pending
  /\ mapped' = check_vault_error(status_code)
  /\ UNCHANGED <<builder, explicit, bpc, inflight, built, vaults, got, status_code>>

SpecStatus == InitStatus /\ [][Check]_vars

(* ------------------------------------------------------------------ *)
(* Properties                                                           *)
(* ------------------------------------------------------------------ *)
\* The status table of the specification, section 4.3
TableKind(s) ==
  CASE s = 404 -> "VaultInvalidPath"
    [] s = 429 -> "VaultSealed"
    [] s = 472 -> "VaultActiveDRsecondaryNode"
    [] s = 473 -> "VaultStandbyPerformanceNode"
    [] s = 501 -> "VaultNotInitialized"
    [] s = 503 -> "VaultSealed"
    [] OTHER -> "Unknown"

MappedError(s) == Err(VaultError(TableKind(s), s))

HasStatus(r) == IsSome(r.status)
ErrorStatus(r) == HasStatus(r) /\ r.status.some # 200

C2_UnhealthyBuildFails ==
  [][/\ (bpc = "health_check" /\ bpc' = "idle" /\ ErrorStatus(built')) =>
          /\ built'.result = MappedError(built'.status.some)
          /\ vaults' = vaults
          /\ got' = got
     /\ BagCardinality(vaults') > BagCardinality(vaults) =>
          /\ bpc = "health_check"
          /\ built'.status = Some(200)
          /\ vaults' = vaults (+) One([vault |-> inflight.vault.some, pc |-> "ready", reqs |-> <<>>])
    ]_vars

C2_Witness ==
  /\ built.op = "build"
  /\ built.status = Some(503)
  /\ built.result = Err(VaultError("VaultSealed", 503))
  /\ vaults = EmptyBag
  /\ got = NoOp

\* C3: get_secret and get_secret_v2, on a response whose status is not 200,
\* return the mapped error without collecting or deserializing the body.
C3_ErrorStatusSkipsBody ==
  (got.op \in GetKinds /\ ErrorStatus(got)) =>
    /\ got.result = MappedError(got.status.some)
    /\ got.collected = "no"
    /\ got.body = None

C3_Witness ==
  /\ got.op = "get_secret_v2"
  /\ got.status = Some(404)
  /\ got.result = Err(VaultError("VaultInvalidPath", 404))
  /\ got.collected = "no"
  /\ built.status = Some(200)

\* C6: on a 200 response with a well-formed envelope, get_secret returns the
\* envelope's data and get_secret_v2 its data.data, and nothing else of the
\* envelope.
C6_ReturnsInnerData ==
  (got.status = Some(200) /\ got.collected = "yes") =>
    /\ (got.op = "get_secret" /\ got.body.some \in EnvelopesV1) =>
         got.result = Ok([password |-> got.body.some.json.obj.data.obj.password.str])
    /\ (got.op = "get_secret_v2" /\ got.body.some \in EnvelopesV2) =>
         got.result = Ok([password |-> got.body.some.json.obj.data.obj.data.obj.password.str])

C6_Witness ==
  /\ got.op = "get_secret_v2"
  /\ got.body = Some(JsonBody(Envelope(KvV2(Hunter))))
  /\ got.result = Ok([password |-> "hunter2"])

HealthPath == [prefix |-> "/v1/", rest |-> "sys/health"]
SecretPath(v) == [prefix |-> "/v1/", rest |-> v.secret_path.some]

IsGet(req, path) == req.method = "GET" /\ req.uri.path = path

\* The operation ended before it had a request to send
NeverSent(r) == IsPanic(r.result) \/ r.result \in {Err(InvalidUri), Err(HttpError)}

\* C7 (as stated, read for the invocations that return): every build has
\* issued exactly one GET /v1/sys/health and every get_secret / get_secret_v2
\* exactly one GET /v1/{secret_path}.
C7_ExactlyOneRequest ==
  /\ (built.op = "build" /\ ~IsPanic(built.result)) =>
       Len(built.reqs) = 1 /\ IsGet(built.reqs[1], HealthPath)
  /\ got.op \in GetKinds =>
       Len(got.reqs) = 1 /\ IsGet(got.reqs[1], SecretPath(got.vault.some))

\* C7 (amended): an invocation issues at most one request, none exactly when
\* it ends before sending (a panic in the resolution, a URI or a header the
\* request cannot be built from) and otherwise exactly one: build its
\* GET /v1/sys/health, get_secret / get_secret_v2 their GET /v1/{secret_path}
\* with no health request before it; nothing is sent after the response or
\* the transport failure.
C7_AtMostOneRequest ==
  /\ bpc = "health_check" =>
       Len(inflight.reqs) = 1 /\ IsGet(inflight.reqs[1], HealthPath)
  /\ \A h \in Live :
       /\ h.pc = "ready" => h.reqs = <<>>
       /\ h.pc \in GetKinds => Len(h.reqs) = 1 /\ IsGet(h.reqs[1], SecretPath(h.vault))
  /\ built.op = "build" =>
       /\ Len(built.reqs) <= 1
       /\ Len(built.reqs) = 0 <=> NeverSent(built)
       /\ Len(built.reqs) = 1 => IsGet(built.reqs[1], HealthPath)
  /\ got.op \in GetKinds =>
       /\ Len(got.reqs) <= 1
       /\ Len(got.reqs) = 0 <=> NeverSent(got)
       /\ Len(got.reqs) = 1 => IsGet(got.reqs[1], SecretPath(got.vault.some))

C7_Witness ==
  /\ built.op = "build" /\ built.result = Err(TransportError) /\ Len(built.reqs) = 1
  /\ got.op = "get_secret" /\ got.status = Some(503) /\ Len(got.reqs) = 1

Logged(r) ==
  \E i \in 1..Len(r.log) : r.log[i] = [level |-> "ERROR", event |-> r.result.err]

\* C8: every error returned for a status other than 200, and every
\* deserialization failure of get_secret / get_secret_v2, has been logged at
\* error severity by the time it is returned.
C8_EveryErrorLogged ==
  /\ (built.op = "build" /\ IsErr(built.result) /\ built.result.err.kind \in VaultErrorKinds) =>
       Logged(built)
  /\ (got.op \in GetKinds /\ IsErr(got.result)
      /\ (got.result.err.kind \in VaultErrorKinds \/ got.result.err = SerdeError)) =>
       Logged(got)

SameCall(r, q) ==
  /\ r.op = q.op /\ r.vault = q.vault
  /\ r.status = q.status /\ r.collected = q.collected /\ r.body = q.body

EnvVarOf ==
  [secret_path |-> "VAULT_SECRET_PATH", address |-> "VAULT_ADDRESS", port |-> "VAULT_PORT",
   token |-> "VAULT_TOKEN", protocol |-> "VAULT_PROTOCOL"]

PortValue == (<<"9", "2", "0", "0">> :> 9200)

Default ==
  [secret_path |-> None, address |-> Some("127.0.0.1"), port |-> Some(8200),
   token |-> None, protocol |-> Some("http")]

EnvSet(f, e) == IsSome(e[EnvVarOf[f]])

FromEnv(f, e) ==
  IF ~EnvSet(f, e) THEN Default[f]
  ELSE IF f # "port" THEN e[EnvVarOf[f]]
  ELSE IF e.VAULT_PORT.some \in DOMAIN PortValue THEN Some(PortValue[e.VAULT_PORT.some])
  ELSE None

CannotResolve(b, e) ==
  \/ ~IsSome(b.token) /\ ~EnvSet("token", e)
  \/ ~IsSome(b.secret_path) /\ ~EnvSet("secret_path", e)
  \/ ~IsSome(b.port) /\ EnvSet("port", e) /\ e.VAULT_PORT.some \notin DOMAIN PortValue

\* C4: when a build cannot resolve its configuration (no token, no secret
\* path, or a VAULT_PORT text that is no u16 with no explicit port; the field
\* is then still unset), it has returned a configuration error to its caller
\* and sent no request.
C4_ConfigErrorReturned ==
  (IsSome(inflight.env) /\ CannotResolve(builder, inflight.env.some)) =>
    /\ built.op = "build"
    /\ IsErr(built.result)
    /\ built.reqs = <<>>

\* C5: the configuration a build uses holds, per field, the value given
\* through the setter if one was, else the environment variable's value if
\* set, else the default.
C5_Precedence ==
  bpc = "health_check" =>
    \A f \in Fields :
      inflight.vault.some[f] =
        IF IsSome(explicit[f]) THEN explicit[f] ELSE FromEnv(f, inflight.env.some)

\* C10: build leaves in the builder every value it resolved, from the
\* environment it read or the default, and the failure of the health check
\* does not take them back; a field the builder already holds is used as it
\* is whatever the environment says; a setter changes no Vault already handed
\* over.
C10_WriteBack ==
  [][/\ (bpc = "idle" /\ bpc' # "idle") =>
          \A f \in Fields :
            /\ IsSome(builder[f]) => builder'[f] = builder[f]
            /\ (~IsSome(builder[f]) /\ IsSome(builder'[f])) =>
                 builder'[f] = FromEnv(f, inflight'.env.some)
            /\ bpc' = "health_check" =>
                 IsSome(builder'[f]) /\ inflight'.vault.some[f] = builder'[f]
     /\ (bpc = "health_check" /\ bpc' = "idle") => builder' = builder
     /\ explicit' # explicit => vaults' = vaults
    ]_vars

C10_Witness ==
  /\ bpc = "health_check"
  /\ explicit.address = None
  /\ inflight.env.some.VAULT_ADDRESS = Some("vault.env")
  /\ inflight.vault.some.address = Some(DefaultAddress)
  /\ builder.address = Some(DefaultAddress)

====
